---------------------------- MODULE Spec2Model ----------------------------
(***************************************************************************)
(* Event translation and dispatch of native-windows-gui                    *)
(* (src/src/controls/base/sysproc.rs): the subclass hook sub_wndproc, the   *)
(* classifier map_system_event / map_command, the dispatcher handle_events *)
(* / dispatch_event and the payload extractors.                            *)
(*                                                                         *)
(* The hook is re-entrant: send_message delivers synchronously to the      *)
(* window procedure of the receiving window, so the model keeps the call   *)
(* stack of hook activations.  Every action steps the innermost            *)
(* activation.                                                             *)
(*                                                                         *)
(* Spec is the hook with the runtime around it.  ExtractSpec applies the     *)
(* payload extractors handle_btn and handle_sizing on their own, over a     *)
(* sweep of their inputs (variable call).  PlaceholderSpec is the           *)
(* placeholder actions of the TextInput evaluator                           *)
(* (src/src/controls/textinput.rs), with the cue banner the host holds      *)
(* (variables banner and log).                                              *)
(*                                                                         *)
(* Machine words are held as the signed integer with the same bit pattern  *)
(* (-1 stands for 0xFFFF...FFFF), since every value the model draws fits.  *)
(***************************************************************************)
EXTENDS Integers, Sequences, FiniteSets

VARIABLES registry, tree, stack, trace, views, cur, proc, call, banner, log

vars == <<registry, tree, stack, trace, views, cur, proc, call, banner, log>>

\* the state of the hook and of the runtime around it
dispatch_vars == <<registry, tree, stack, trace, views, cur, proc>>

---------------------------------------------------------------------------
(* Bounds of the model *)

\* callbacks bound in the whole registry
MaxCallbacks == 1

\* the largest first parameter of a button message handle_btn is applied to:
\* every combination of the five mask bits, and of 32, which is in no mask
MaxMaskWord == 63

\* the longest placeholder drawn letter by letter
MaxPlaceholderLen == 5

---------------------------------------------------------------------------
(* Message kinds (winapi) *)

WM_SIZE == 5
WM_ACTIVATEAPP == 28
WM_COMMAND == 273
WM_LBUTTONDOWN == 513
WM_LBUTTONUP == 514
WM_RBUTTONDOWN == 516
WM_RBUTTONUP == 517
WM_MBUTTONDOWN == 519
WM_MBUTTONUP == 520
WM_SIZING == 532
WM_USER == 1024
NWG_DESTROY_NOTICE == WM_USER
CB_GETCURSEL == 327
CB_GETLBTEXT == 328
CB_GETLBTEXTLEN == 329
CB_ERR == -1

(* Command sub-codes *)
BN_CLICKED == 0
BN_SETFOCUS == 6
BN_KILLFOCUS == 7
EN_SETFOCUS == 256
EN_KILLFOCUS == 512
EN_CHANGE == 768
EN_MAXTEXT == 1281
CBN_SELCHANGE == 1
CBN_SETFOCUS == 3
CBN_KILLFOCUS == 4
CBN_DROPDOWN == 7
CBN_CLOSEUP == 8
STN_CLICKED == 0

(* Mouse masks *)
BTN_MOUSE_LEFT == 1
BTN_MOUSE_RIGHT == 2
MOD_MOUSE_SHIFT == 4
MOD_MOUSE_CTRL == 8
BTN_MOUSE_MIDDLE == 16

---------------------------------------------------------------------------
(* Events, callbacks, control types *)

Unknown == "Unknown"

\* the variants of EventCallback; each is stored under the Event of its name
CallbackKinds ==
    {"MouseUp", "MouseDown", "Click", "ValueChanged", "MaxValue", "Removed",
     "MenuClose", "MenuOpen", "Resize", "Focus", "SelectionChanged"}

Events == CallbackKinds \cup {Unknown}

ButtonFamily == {"Button", "CheckBox", "GroupBox", "RadioButton"}

ControlTypes == ButtonFamily \cup {"TextInput", "ComboBox", "Label", "Window"}

NoData == [none |-> TRUE]

NoCallbacks == [e \in Events |-> <<>>]

---------------------------------------------------------------------------
(* Word arithmetic *)

HIWORD(x) == (x \div 65536) % 65536

LOWORD(x) == x % 65536

\* a 16-bit word read as a signed short
Short(x) == IF x >= 32768 THEN x - 65536 ELSE x

GET_X_LPARAM(l) == Short(LOWORD(l))

GET_Y_LPARAM(l) == Short(HIWORD(l))

\* x & mask for a mask that is a union of single bits, bit by bit
BitAnd(x, mask) ==
    LET bit(b) == IF (x \div b) % 2 = 1 /\ (mask \div b) % 2 = 1 THEN b ELSE 0
    IN bit(1) + bit(2) + bit(4) + bit(8) + bit(16) + bit(32) + bit(64)

\* x | mask, for the same range
BitOr(x, mask) == x + mask - BitAnd(x, mask)

\* whether the single bit b is set in x
HasBit(x, b) == (x \div b) % 2 = 1

---------------------------------------------------------------------------
(* Inputs: handles, host data, raw messages *)

\* handles the runtime registers controls under: a top-level window and a
\* control in it
Handles == {1, 2}

TypesFor(h) == IF h = 1 THEN {"Window"} ELSE ControlTypes

\* the controls a command comes from: the registered control, and a window
\* the runtime never registers
Owners == {2, 3}

\* the labels of the host's combo box, as UTF-16 code units: an empty label,
\* "a", and a lone high surrogate (which does not decode)
ComboItems == << <<>>, <<97>>, <<55296>> >>

\* "ERROR!"
ErrorText == <<69, 82, 82, 79, 82, 33>>

\* rectangles the host holds: behind the pointer of a WM_SIZING message and
\* as the window rectangle GetWindowRect reports
RectPtrs == {4096, 4112}

RectAt(ptr) ==
    IF ptr = 4096
    THEN [left |-> 10, top |-> 10, right |-> 110, bottom |-> 60]
    ELSE [left |-> -5, top |-> 0, right |-> 20, bottom |-> 15]

Rects == {RectAt(p) : p \in RectPtrs}

\* the address of the label buffer get_combobox_selection hands to the host
BufferPtr == 8192

\* results of the default handler for messages that are not queries
LResults == {0, 1}

\* the sub-codes of the tables, and 2, which is in no table
SubCodes ==
    {BN_CLICKED, CBN_SELCHANGE, 2, CBN_SETFOCUS, CBN_KILLFOCUS,
     BN_SETFOCUS, BN_KILLFOCUS, CBN_CLOSEUP, EN_SETFOCUS, EN_KILLFOCUS,
     EN_CHANGE, EN_MAXTEXT}

MAKEWPARAM(lo, hi) == hi * 65536 + lo

Msg(h, m, w, l) == [hwnd |-> h, msg |-> m, w |-> w, l |-> l]

\* a command reaches the hook of h from the control o, registered or not
CommandMessages ==
    {Msg(h, WM_COMMAND, MAKEWPARAM(1, c), o) :
        h \in Handles, c \in SubCodes, o \in Owners}

ActivateMessages == {Msg(h, WM_ACTIVATEAPP, w, 0) : h \in Handles, w \in 0..3}

ButtonKinds ==
    {WM_LBUTTONUP, WM_RBUTTONUP, WM_MBUTTONUP,
     WM_LBUTTONDOWN, WM_RBUTTONDOWN, WM_MBUTTONDOWN}

MouseMessages ==
    {Msg(h, k, w, MAKEWPARAM(65535, 7)) :
        h \in Handles, k \in ButtonKinds, w \in {12}}

SizeMessages ==
    {Msg(h, WM_SIZING, 0, p) : h \in Handles, p \in RectPtrs}
    \cup {Msg(h, WM_SIZE, 0, MAKEWPARAM(100, 50)) : h \in Handles}

\* the destroy notice, and kinds the classifier has no case for: 15
\* (WM_PAINT) and a combo box query
OtherMessages ==
    {Msg(h, k, 0, 0) : h \in Handles, k \in {NWG_DESTROY_NOTICE, 15, CB_GETCURSEL}}

Messages ==
    CommandMessages \cup ActivateMessages \cup MouseMessages
    \cup SizeMessages \cup OtherMessages

---------------------------------------------------------------------------
(* Registry lookup *)

get_handle_data(h) == IF h \in Handles THEN registry[h] ELSE NoData

---------------------------------------------------------------------------
(* Payload extractors *)

\* handle_btn, taking the buttons from the first parameter alone
handle_btn_mask_only(msg, w, l) ==
    LET modifiers == BitAnd(w, MOD_MOUSE_CTRL + MOD_MOUSE_SHIFT)
        btn == BitAnd(w, BTN_MOUSE_MIDDLE + BTN_MOUSE_RIGHT + BTN_MOUSE_LEFT)
    IN <<GET_X_LPARAM(l), GET_Y_LPARAM(l), btn, modifiers>>

\* handle_btn: (x, y, btn, modifiers)
handle_btn(msg, w, l) ==
    LET modifiers == BitAnd(w, MOD_MOUSE_CTRL + MOD_MOUSE_SHIFT)
        btn == BitAnd(w, BTN_MOUSE_MIDDLE + BTN_MOUSE_RIGHT + BTN_MOUSE_LEFT)
        implied ==
            CASE msg \in {WM_LBUTTONUP, WM_LBUTTONDOWN} -> BTN_MOUSE_LEFT
              [] msg \in {WM_RBUTTONUP, WM_RBUTTONDOWN} -> BTN_MOUSE_RIGHT
              [] msg \in {WM_MBUTTONUP, WM_MBUTTONDOWN} -> BTN_MOUSE_MIDDLE
              [] OTHER -> 0
    IN <<GET_X_LPARAM(l), GET_Y_LPARAM(l), BitOr(btn, implied), modifiers>>

\* whether handle_sizing reaches its panic!
sizing_panics(msg) == msg # WM_SIZING /\ msg # WM_SIZE

\* handle_sizing, returning the corners of the rectangle
handle_sizing_corners(msg, rectv, windowRect) ==
    LET r == IF msg = WM_SIZING THEN RectAt(rectv) ELSE windowRect
    IN <<r.left, r.top, r.right, r.bottom>>

\* handle_sizing: (left, top, width, height) of the rectangle behind rectv
\* (WM_SIZING) or of windowRect, what GetWindowRect wrote (WM_SIZE)
handle_sizing(msg, rectv, windowRect) ==
    LET r == IF msg = WM_SIZING THEN RectAt(rectv) ELSE windowRect
    IN <<r.left, r.top, r.right - r.left, r.bottom - r.top>>

\* whether the focus extraction of dispatch_event reaches unreachable!()
focus_unreachable(msg) == msg # WM_COMMAND /\ msg # WM_ACTIVATEAPP

\* focus_of, reading an activation's flag from the low bit of w
focus_of_low_bit(msg, w) ==
    IF msg = WM_COMMAND
    THEN LET c == HIWORD(w)
         IN c = BN_SETFOCUS \/ c = EN_SETFOCUS \/ c = CBN_SETFOCUS
    ELSE w % 2 = 1

\* focus_of, reading every command that classified to Focus as a gain
focus_of_any_command(msg, w) == IF msg = WM_COMMAND THEN TRUE ELSE w = 1

\* the focus flag of dispatch_event
focus_of(msg, w) ==
    IF msg = WM_COMMAND
    THEN LET c == HIWORD(w)
         IN c = BN_SETFOCUS \/ c = EN_SETFOCUS \/ c = CBN_SETFOCUS
    ELSE w = 1

\* Vec::<u16>::with_capacity(n) panics with "capacity overflow" when 2n bytes
\* exceed isize::MAX; a negative pattern is a usize of at least 2^63
capacity_overflow(n) == n < 0

\* the index of the first terminator in the buffer, or its length
end_index(buffer) ==
    LET zeros == {i \in 1..Len(buffer) : buffer[i] = 0}
    IN IF zeros = {} THEN Len(buffer)
       ELSE (CHOOSE i \in zeros : \A j \in zeros : i <= j) - 1

IsHighSurrogate(u) == u >= 55296 /\ u <= 56319

IsLowSurrogate(u) == u >= 56320 /\ u <= 57343

\* OsString::from_wide(units).into_string(): fails on an unpaired surrogate
well_formed_utf16(units) ==
    \A i \in 1..Len(units) :
        /\ IsHighSurrogate(units[i]) =>
              i < Len(units) /\ IsLowSurrogate(units[i + 1])
        /\ IsLowSurrogate(units[i]) =>
              i > 1 /\ IsHighSurrogate(units[i - 1])

\* the text a sequence of code units decodes to
decoded(label) == IF well_formed_utf16(label) THEN label ELSE ErrorText

\* the text of get_combobox_selection, from the buffer the host filled
selection_text(buffer) ==
    LET units == SubSeq(buffer, 1, end_index(buffer))
    IN IF well_formed_utf16(units) THEN units ELSE ErrorText

---------------------------------------------------------------------------
(* Classification *)

\* the documented table of the Command Disambiguator: the event list of a
\* sub-code for a control type
CommandTable(type, command) ==
    CASE type \in {"Button", "CheckBox", "GroupBox", "RadioButton"}
         /\ command \in {BN_SETFOCUS, BN_KILLFOCUS} -> <<"Focus">>
      [] type \in {"Button", "CheckBox", "GroupBox", "RadioButton"}
         /\ command = BN_CLICKED -> <<"Click">>
      [] type = "TextInput" /\ command \in {EN_SETFOCUS, EN_KILLFOCUS} -> <<"Focus">>
      [] type = "TextInput" /\ command = EN_CHANGE -> <<"ValueChanged">>
      [] type = "TextInput" /\ command = EN_MAXTEXT -> <<"MaxValue">>
      [] type = "ComboBox" /\ command \in {CBN_SETFOCUS, CBN_KILLFOCUS} -> <<"Focus">>
      [] type = "ComboBox" /\ command = CBN_CLOSEUP -> <<"MenuClose">>
      [] type = "ComboBox" /\ command = CBN_DROPDOWN -> <<"MenuOpen">>
      [] type = "ComboBox" /\ command = CBN_SELCHANGE ->
            <<"ValueChanged", "SelectionChanged">>
      [] type = "Label" /\ command = STN_CLICKED -> <<"Click">>
      [] OTHER -> <<Unknown>>

\* map_command, classifying by the raw target's data when the originating
\* control has none
map_command_guess(handle, evt, w, l) ==
    LET data == IF get_handle_data(l) = NoData THEN get_handle_data(handle)
                ELSE get_handle_data(l)
        ev == IF data = NoData THEN <<Unknown>> ELSE CommandTable(data.type, HIWORD(w))
    IN <<ev, IF ev = <<Unknown>> \/ get_handle_data(l) = NoData THEN handle ELSE l>>

\* map_command, returning the originating control on every path that found
\* its data
map_command_owner(handle, evt, w, l) ==
    IF get_handle_data(l) = NoData THEN <<<<Unknown>>, handle>>
    ELSE <<CommandTable(get_handle_data(l).type, HIWORD(w)), l>>

\* map_command, with the change notification of a text input read for every
\* control type
map_command_flat(handle, evt, w, l) ==
    LET data == get_handle_data(l)
        ev == IF data = NoData THEN <<Unknown>>
              ELSE IF HIWORD(w) = EN_CHANGE THEN <<"ValueChanged">>
              ELSE CommandTable(data.type, HIWORD(w))
    IN <<ev, IF ev = <<Unknown>> THEN handle ELSE l>>

\* map_command, with a text input taking the click of the Button family
map_command_text_click(handle, evt, w, l) ==
    LET data == get_handle_data(l)
        ev == IF data = NoData THEN <<Unknown>>
              ELSE IF data.type = "TextInput" /\ HIWORD(w) = BN_CLICKED THEN <<"Click">>
              ELSE CommandTable(data.type, HIWORD(w))
    IN <<ev, IF ev = <<Unknown>> THEN handle ELSE l>>

map_command(handle, evt, w, l) ==
    LET command == HIWORD(w)
        owner == l
        data == get_handle_data(owner)
    IN IF data = NoData THEN <<<<Unknown>>, handle>>
       ELSE
        CASE data.type \in ButtonFamily ->
                CASE command \in {BN_SETFOCUS, BN_KILLFOCUS} -> <<<<"Focus">>, owner>>
                  [] command = BN_CLICKED -> <<<<"Click">>, owner>>
                  [] OTHER -> <<<<Unknown>>, handle>>
          [] data.type = "TextInput" ->
                CASE command \in {EN_SETFOCUS, EN_KILLFOCUS} -> <<<<"Focus">>, owner>>
                  [] command = EN_CHANGE -> <<<<"ValueChanged">>, owner>>
                  [] command = EN_MAXTEXT -> <<<<"MaxValue">>, owner>>
                  [] OTHER -> <<<<Unknown>>, handle>>
          [] data.type = "ComboBox" ->
                CASE command \in {CBN_SETFOCUS, CBN_KILLFOCUS} -> <<<<"Focus">>, owner>>
                  [] command = CBN_CLOSEUP -> <<<<"MenuClose">>, owner>>
                  [] command = CBN_DROPDOWN -> <<<<"MenuOpen">>, owner>>
                  [] command = CBN_SELCHANGE ->
                        <<<<"ValueChanged", "SelectionChanged">>, owner>>
                  [] OTHER -> <<<<Unknown>>, handle>>
          [] data.type = "Label" ->
                CASE command = STN_CLICKED -> <<<<"Click">>, owner>>
                  [] OTHER -> <<<<Unknown>>, handle>>
          [] OTHER -> <<<<Unknown>>, handle>>

\* the documented event of a message kind that is not the generic command
KindTable(evt) ==
    CASE evt \in {WM_LBUTTONUP, WM_RBUTTONUP, WM_MBUTTONUP} -> "MouseUp"
      [] evt \in {WM_LBUTTONDOWN, WM_RBUTTONDOWN, WM_MBUTTONDOWN} -> "MouseDown"
      [] evt = WM_ACTIVATEAPP -> "Focus"
      [] evt \in {WM_SIZING, WM_SIZE} -> "Resize"
      [] evt = NWG_DESTROY_NOTICE -> "Removed"
      [] OTHER -> Unknown

\* map_system_event, with the completed resize left to the default case
map_system_event_sizing_only(handle, evt, w, l) ==
    CASE evt = WM_COMMAND -> map_command(handle, evt, w, l)
      [] evt = WM_SIZE -> <<<<Unknown>>, handle>>
      [] OTHER -> <<<<KindTable(evt)>>, handle>>

map_system_event(handle, evt, w, l) ==
    CASE evt = WM_COMMAND -> map_command(handle, evt, w, l)
      [] evt \in {WM_LBUTTONUP, WM_RBUTTONUP, WM_MBUTTONUP} -> <<<<"MouseUp">>, handle>>
      [] evt \in {WM_LBUTTONDOWN, WM_RBUTTONDOWN, WM_MBUTTONDOWN} ->
            <<<<"MouseDown">>, handle>>
      [] evt = WM_ACTIVATEAPP -> <<<<"Focus">>, handle>>
      [] evt \in {WM_SIZING, WM_SIZE} -> <<<<"Resize">>, handle>>
      [] evt = NWG_DESTROY_NOTICE -> <<<<"Removed">>, handle>>
      [] OTHER -> <<<<Unknown>>, handle>>

\* TextInput::supported_events
supported_events ==
    {"MouseUp", "MouseDown", "Focus", "ValueChanged", "MaxValue", "Removed", "Resize"}

\* the events other than Unknown that the messages classify to with h as the
\* resolved handle
classified(h) ==
    LET to_h == {m \in Messages : map_system_event(m.hwnd, m.msg, m.w, m.l)[2] = h}
        of(m) == map_system_event(m.hwnd, m.msg, m.w, m.l)[1]
    IN UNION {{of(m)[e] : e \in 1..Len(of(m))} : m \in to_h} \ {Unknown}

---------------------------------------------------------------------------
(* The hook's activations *)

\* the first position at or after (ei, ci) that holds a callback, or
\* (Len(events) + 1, 1) when the loops are over
RECURSIVE skip(_, _, _, _)
skip(events, callbacks, ei, ci) ==
    IF ei > Len(events) THEN <<ei, 1>>
    ELSE IF ci > Len(callbacks[events[ei]]) THEN skip(events, callbacks, ei + 1, 1)
    ELSE <<ei, ci>>

\* enter, looking up the raw message's target instead of the resolved handle
enter_at_target(m, vid) ==
    LET r == map_system_event(m.hwnd, m.msg, m.w, m.l)
        data == get_handle_data(m.hwnd)
        pos == IF data = NoData THEN <<1, 1>> ELSE skip(r[1], data.callbacks, 1, 1)
    IN [hwnd |-> m.hwnd, msg |-> m.msg, w |-> m.w, l |-> m.l,
        pc |-> IF data = NoData THEN "forward" ELSE "dispatch",
        events |-> r[1], handle |-> m.hwnd,
        vid |-> IF data = NoData THEN 0 ELSE vid,
        ei |-> pos[1], ci |-> pos[2],
        selected |-> 0, buflen |-> 0, buffer |-> <<>>]

\* the activation sub_wndproc starts for message m: handle_events has
\* classified it, looked up the resolved handle and, with data there, built
\* the view number vid
enter(m, vid) ==
    LET r == map_system_event(m.hwnd, m.msg, m.w, m.l)
        data == get_handle_data(r[2])
        pos == IF data = NoData THEN <<1, 1>> ELSE skip(r[1], data.callbacks, 1, 1)
    IN [hwnd |-> m.hwnd, msg |-> m.msg, w |-> m.w, l |-> m.l,
        pc |-> IF data = NoData THEN "forward" ELSE "dispatch",
        events |-> r[1], handle |-> r[2],
        vid |-> IF data = NoData THEN 0 ELSE vid,
        ei |-> pos[1], ci |-> pos[2],
        selected |-> 0, buflen |-> 0, buffer |-> <<>>]

built(m) == get_handle_data(map_system_event(m.hwnd, m.msg, m.w, m.l)[2]) # NoData

Top == stack[Len(stack)]

Running == proc = "running"

Idle == Running /\ stack = <<>>

\* between two deliveries
Quiet == Idle /\ cur = NoData

InLoop(f) == f.pc = "dispatch" /\ f.ei <= Len(f.events)

\* the callback the loops of handle_events stand at
callback_at(f) == get_handle_data(f.handle).callbacks[f.events[f.ei]][f.ci]

\* the fatal path the activation is about to take, or "none"
fatal(f) ==
    IF InLoop(f)
    THEN LET kind == callback_at(f).kind
         IN CASE kind = "Resize" /\ sizing_panics(f.msg) -> "handle_sizing"
              [] kind = "Focus" /\ focus_unreachable(f.msg) -> "focus"
              [] kind = "SelectionChanged"
                 /\ get_handle_data(f.handle).type # "ComboBox" -> "selection"
              [] OTHER -> "none"
    ELSE IF f.pc = "got_textlen" /\ capacity_overflow(f.buflen) THEN "capacity"
    ELSE "none"

\* the arguments dispatch_event passes after ui and caller
payload(f, kind, windowRect) ==
    CASE kind \in {"MouseUp", "MouseDown"} -> handle_btn(f.msg, f.w, f.l)
      [] kind = "Resize" -> handle_sizing(f.msg, f.l, windowRect)
      [] kind = "Focus" -> <<focus_of(f.msg, f.w)>>
      [] kind = "SelectionChanged" -> <<f.selected, selection_text(f.buffer)>>
      [] OTHER -> <<>>

advance(f) ==
    LET pos == skip(f.events, get_handle_data(f.handle).callbacks, f.ei, f.ci + 1)
    IN [f EXCEPT !.pc = "dispatch", !.ei = pos[1], !.ci = pos[2]]

SetTop(f) == [stack EXCEPT ![Len(stack)] = f]

---------------------------------------------------------------------------
(* The runtime: registration, binding, teardown *)

Init ==
    /\ registry = [h \in Handles |-> NoData]
    /\ tree = [controls |-> {}, released |-> FALSE]
    /\ stack = <<>>
    /\ trace = <<>>
    /\ views = <<>>
    /\ cur = NoData
    /\ proc = "running"
    /\ call = NoData
    /\ banner = <<>>
    /\ log = <<>>

bound_callbacks(data) ==
    IF data = NoData THEN 0
    ELSE LET RECURSIVE sum(_)
             sum(S) == IF S = {} THEN 0
                       ELSE LET e == CHOOSE x \in S : TRUE
                            IN Len(data.callbacks[e]) + sum(S \ {e})
         IN sum(Events)

total_callbacks == bound_callbacks(registry[1]) + bound_callbacks(registry[2])

\* the message loop is back at its queue: nothing of the last delivery is kept
Pump ==
    /\ Idle /\ cur # NoData
    /\ trace' = <<>> /\ views' = <<>> /\ cur' = NoData
    /\ UNCHANGED <<registry, tree, stack, proc, call, banner, log>>

Register(h, t) ==
    /\ Quiet
    /\ registry[h] = NoData
    /\ registry' = [registry EXCEPT ![h] =
                        [id |-> 100 + h, type |-> t, callbacks |-> NoCallbacks]]
    /\ tree' = [tree EXCEPT !.controls = @ \cup {h}]
    /\ UNCHANGED <<stack, trace, views, cur, proc, call, banner, log>>

\* a callback of variant k is stored under the event of its variant, after
\* the callbacks already bound there
Bind(h, k) ==
    /\ Quiet
    /\ registry[h] # NoData
    /\ total_callbacks < MaxCallbacks
    /\ registry' = [registry EXCEPT ![h].callbacks[k] =
                        Append(@, [key |-> Len(@) + 1, kind |-> k])]
    /\ UNCHANGED <<tree, stack, trace, views, cur, proc, call, banner, log>>

Teardown(h) ==
    /\ Quiet
    /\ registry[h] # NoData
    /\ registry' = [registry EXCEPT ![h] = NoData]
    /\ tree' = [tree EXCEPT !.controls = @ \ {h}]
    /\ UNCHANGED <<stack, trace, views, cur, proc, call, banner, log>>

---------------------------------------------------------------------------
(* sub_wndproc, handle_events, dispatch_event *)

\* the host delivers m to the hook of m.hwnd
Deliver(m) ==
    /\ Quiet
    /\ stack' = <<enter(m, 1)>>
    /\ views' = IF built(m) THEN <<"live">> ELSE <<>>
    /\ trace' = <<>>
    /\ cur' = [m |-> m, done |-> FALSE, ret |-> 0]
    /\ UNCHANGED <<registry, tree, proc, call, banner, log>>

\* dispatch_event calls the callback the loops stand at
Invoke ==
    /\ Running /\ stack # <<>>
    /\ LET f == Top
       IN /\ fatal(f) = "none"
          /\ \/ InLoop(f) /\ callback_at(f).kind # "SelectionChanged"
             \/ f.pc = "got_text"
          /\ LET cb == callback_at(f)
                 asks == cb.kind = "Resize" /\ f.msg = WM_SIZE
             IN \E windowRect \in IF asks THEN Rects ELSE {RectAt(4096)} :
                  /\ trace' = Append(trace,
                        [op |-> "call", depth |-> Len(stack), handle |-> f.handle,
                         caller |-> get_handle_data(f.handle).id,
                         event |-> f.events[f.ei], key |-> cb.key, kind |-> cb.kind,
                         args |-> payload(f, cb.kind, windowRect)])
                  /\ stack' = SetTop(advance(f))
    /\ UNCHANGED <<registry, tree, views, cur, proc, call, banner, log>>

\* query, sending to the raw message's target instead of the resolved handle
query_wrong_handle(f) ==
    CASE f.pc = "dispatch" ->
            [m |-> Msg(f.hwnd, CB_GETCURSEL, 0, 0), pc |-> "cursel"]
      [] f.pc = "got_cursel" ->
            [m |-> Msg(f.hwnd, CB_GETLBTEXTLEN, f.selected, 0), pc |-> "textlen"]
      [] OTHER ->
            [m |-> Msg(f.hwnd, CB_GETLBTEXT, f.selected, BufferPtr), pc |-> "text"]

\* the query get_combobox_selection sends next and where it then waits
query(f) ==
    CASE f.pc = "dispatch" ->
            [m |-> Msg(f.handle, CB_GETCURSEL, 0, 0), pc |-> "cursel"]
      [] f.pc = "got_cursel" ->
            [m |-> Msg(f.handle, CB_GETLBTEXTLEN, f.selected, 0), pc |-> "textlen"]
      [] OTHER ->
            [m |-> Msg(f.handle, CB_GETLBTEXT, f.selected, BufferPtr), pc |-> "text"]

\* send_message(m): the host calls the hook of the receiving window, and
\* the caller waits for it to return
send_message(caller, m) == Append(SetTop(caller), enter(m, Len(views) + 1))

\* get_combobox_selection asks the combo box for its selection, for the
\* length of the selected label, then for the label
SendQuery ==
    /\ Running /\ stack # <<>>
    /\ LET f == Top
           q == query(f)
       IN /\ fatal(f) = "none"
          /\ \/ InLoop(f) /\ callback_at(f).kind = "SelectionChanged"
             \/ f.pc \in {"got_cursel", "got_textlen"}
          /\ stack' = send_message([f EXCEPT !.pc = q.pc], q.m)
          /\ views' = IF built(q.m) THEN Append(views, "live") ELSE views
    /\ UNCHANGED <<registry, tree, trace, cur, proc, call, banner, log>>

\* a panic: the activations on the stack unwind, which drops their views
\* (the destructor of Ui runs on the tree they alias), or the process aborts
Panic ==
    /\ Running /\ stack # <<>>
    /\ fatal(Top) # "none"
    /\ proc' = fatal(Top)
    /\ \E unwind \in BOOLEAN :
          /\ views' = [i \in 1..Len(views) |->
                          IF unwind /\ views[i] = "live" THEN "dropped" ELSE views[i]]
          /\ tree' = [tree EXCEPT !.released =
                          @ \/ (unwind /\ \E i \in 1..Len(views) : views[i] = "live")]
    /\ UNCHANGED <<registry, stack, trace, cur, call, banner, log>>

\* the loops are over: mem::forget(ui), handle_events returns
EndDispatch ==
    /\ Running /\ stack # <<>>
    /\ Top.pc = "dispatch" /\ Top.ei > Len(Top.events)
    /\ views' = [views EXCEPT ![Top.vid] = "forgotten"]
    /\ stack' = SetTop([Top EXCEPT !.pc = "forward"])
    /\ UNCHANGED <<registry, tree, trace, cur, proc, call, banner, log>>

\* whether w indexes an item of the combo box
valid_index(w) == w >= 0 /\ w < Len(ComboItems)

\* what the default handler can answer to message f
replies(f) ==
    CASE f.msg = CB_GETCURSEL -> {CB_ERR} \cup (0..(Len(ComboItems) - 1))
      [] f.msg \in {CB_GETLBTEXTLEN, CB_GETLBTEXT} ->
            IF valid_index(f.w) THEN {Len(ComboItems[f.w + 1])} ELSE {CB_ERR}
      [] OTHER -> LResults

\* the code units the host writes behind the pointer of a CB_GETLBTEXT: the
\* label and its terminator
written(f) == IF valid_index(f.w) THEN Append(ComboItems[f.w + 1], 0) ELSE <<>>

\* the label buffer (set_len(capacity) code units) after the host wrote units
filled(capacity, units) ==
    [i \in 1..capacity |-> IF i <= Len(units) THEN units[i] ELSE 0]

\* the activation that called send_message takes the reply
resume(p, f, res) ==
    CASE p.pc = "cursel" -> [p EXCEPT !.pc = "got_cursel", !.selected = res]
      [] p.pc = "textlen" -> [p EXCEPT !.pc = "got_textlen", !.buflen = res]
      [] OTHER -> [p EXCEPT !.pc = "got_text",
                            !.buffer = filled(p.buflen, written(f))]

\* whether the host's answer to f writes past the buffer of the caller p
overflows(p, f) ==
    /\ f.msg = CB_GETLBTEXT /\ f.l = BufferPtr
    /\ Len(written(f)) > p.buflen

\* DefSubclassProc(hwnd, msg, w, l), and sub_wndproc returns its result.  A
\* write past the label buffer is undefined behaviour: it goes unnoticed or
\* the process dies of it.
Forward ==
    /\ Running /\ stack # <<>>
    /\ Top.pc = "forward"
    /\ LET f == Top
           n == Len(stack)
           nested == n > 1
           dies == IF nested /\ overflows(stack[n - 1], f) THEN BOOLEAN ELSE {FALSE}
       IN \E res \in replies(f), die \in dies :
            /\ trace' = Append(trace,
                  [op |-> "forward", depth |-> n, hwnd |-> f.hwnd, msg |-> f.msg,
                   w |-> f.w, l |-> f.l, res |-> res])
            /\ proc' = IF die THEN "heap" ELSE proc
            /\ stack' = IF die THEN stack
                        ELSE IF nested
                        THEN Append(SubSeq(stack, 1, n - 2),
                                    resume(stack[n - 1], f, res))
                        ELSE <<>>
            /\ cur' = IF nested THEN cur ELSE [cur EXCEPT !.done = TRUE, !.ret = res]
    /\ UNCHANGED <<registry, tree, views, call, banner, log>>

---------------------------------------------------------------------------

Next ==
    \/ \E h \in Handles : \E t \in TypesFor(h) : Register(h, t)
    \/ \E h \in Handles, k \in CallbackKinds : Bind(h, k)
    \/ \E h \in Handles : Teardown(h)
    \/ Pump
    \/ \E m \in Messages : Deliver(m)
    \/ Invoke
    \/ SendQuery
    \/ Panic
    \/ EndDispatch
    \/ Forward

Spec == Init /\ [][Next]_vars

---------------------------------------------------------------------------
(* The payload extractors on their own *)

\* the positions a button message carries: (0, 0) and (-1, 7)
Points == {0, MAKEWPARAM(65535, 7)}

\* dispatch_event applies handle_btn to a button message
Apply_handle_btn(msg, w, l) ==
    /\ call' = [fn |-> "handle_btn", msg |-> msg, w |-> w, l |-> l,
                out |-> handle_btn(msg, w, l)]
    /\ UNCHANGED <<dispatch_vars, banner, log>>

\* dispatch_event applies handle_sizing to a resize message; windowRect is
\* what GetWindowRect writes for the handle
Apply_handle_sizing(msg, l, windowRect) ==
    /\ call' = [fn |-> "handle_sizing", msg |-> msg, l |-> l,
                windowRect |-> windowRect,
                out |-> handle_sizing(msg, l, windowRect)]
    /\ UNCHANGED <<dispatch_vars, banner, log>>

ExtractNext ==
    \/ \E msg \in ButtonKinds, w \in 0..MaxMaskWord, l \in Points :
          Apply_handle_btn(msg, w, l)
    \/ \E msg \in {WM_SIZING, WM_SIZE}, l \in RectPtrs, windowRect \in Rects :
          Apply_handle_sizing(msg, l, windowRect)

ExtractSpec == Init /\ [][ExtractNext]_vars

---------------------------------------------------------------------------
(* The placeholder actions of the TextInput evaluator
   (src/src/controls/textinput.rs) *)

\* the length of the buffer get_placeholder hands to the host
PlaceholderBuffer == 256

\* placeholders as UTF-16 code units: every string of "a" and "b" up to
\* MaxPlaceholderLen, and strings of 255 and 256 "a"
Placeholders ==
    UNION {[1..n -> {97, 98}] : n \in 0..MaxPlaceholderLen}
    \cup {[i \in 1..n |-> 97] : n \in {PlaceholderBuffer - 1, PlaceholderBuffer}}

\* Option<Box<String>>
NoPlaceholder == [some |-> FALSE]

SomePlaceholder(s) == [some |-> TRUE, s |-> s]

\* ActionReturn::None and ActionReturn::Text
ReturnNone == [ret |-> "None"]

ReturnText(t) == [ret |-> "Text", text |-> t]

\* to_utf16: the code units of the string and a terminator
to_utf16(s) == Append(s, 0)

\* EM_SETCUEBANNER: the host keeps the code units before the terminator
set_cue_banner(raw) == SubSeq(raw, 1, end_index(raw))

\* EM_GETCUEBANNER with a buffer of cch code units: the host writes what fits
\* of the banner, and a terminator
get_cue_banner(text, cch) ==
    LET n == IF Len(text) < cch THEN Len(text) ELSE cch - 1
    IN Append(SubSeq(text, 1, n), 0)

\* the banner the host holds after set_placeholder(handle, placeholder)
set_placeholder(placeholder) ==
    IF placeholder.some THEN set_cue_banner(to_utf16(placeholder.s))
    ELSE set_cue_banner(<<0>>)

\* get_placeholder(handle), with text the banner the host holds
get_placeholder(text) ==
    LET buffer == filled(PlaceholderBuffer, get_cue_banner(text, PlaceholderBuffer))
        end == end_index(buffer)
    IN IF end > 1 THEN ReturnText(decoded(SubSeq(buffer, 1, end)))
       ELSE ReturnNone

\* Action::SetPlaceholder(p) through the evaluator
SetPlaceholder(p) ==
    /\ banner' = set_placeholder(p)
    /\ log' = <<[action |-> "SetPlaceholder", p |-> p, ret |-> ReturnNone]>>
    /\ UNCHANGED <<dispatch_vars, call>>

\* Action::GetPlaceholder through the evaluator
GetPlaceholder ==
    /\ Len(log) <= 1
    /\ log' = Append(log, [action |-> "GetPlaceholder", ret |-> get_placeholder(banner)])
    /\ UNCHANGED <<dispatch_vars, call, banner>>

PlaceholderNext ==
    \/ \E s \in Placeholders : SetPlaceholder(SomePlaceholder(s))
    \/ SetPlaceholder(NoPlaceholder)
    \/ GetPlaceholder

PlaceholderSpec == Init /\ [][PlaceholderNext]_vars

---------------------------------------------------------------------------
(* Observations used by the properties *)

\* the delivery of cur is over: sub_wndproc returned, or the process died
Ended == cur # NoData /\ (cur.done \/ ~Running)

Calls == {i \in 1..Len(trace) : trace[i].op = "call"}

\* the forwards of the delivered message itself
TopForwards == {i \in 1..Len(trace) : trace[i].op = "forward" /\ trace[i].depth = 1}

IsCommand(m) == m.msg = WM_COMMAND

\* the callbacks handle_events has to call for message m, in order, as
\* (event, key) pairs
RECURSIVE due(_, _, _)
due(events, callbacks, i) ==
    IF i > Len(events) THEN <<>>
    ELSE [j \in 1..Len(callbacks[events[i]]) |-> <<events[i], callbacks[events[i]][j].key>>]
         \o due(events, callbacks, i + 1)

Expected(m) ==
    LET r == map_system_event(m.hwnd, m.msg, m.w, m.l)
    IN IF get_handle_data(r[2]) = NoData THEN <<>>
       ELSE due(r[1], get_handle_data(r[2]).callbacks, 1)

\* the calls made for the delivered message itself, in order
RECURSIVE made(_)
made(i) ==
    IF i > Len(trace) THEN <<>>
    ELSE IF trace[i].op = "call" /\ trace[i].depth = 1
         THEN <<<<trace[i].event, trace[i].key>>>> \o made(i + 1)
         ELSE made(i + 1)

---------------------------------------------------------------------------
(* What holds of every delivery that returns *)

\* a delivery that returns has forwarded the message once, last, unchanged
ReturnedForwardedOnce ==
    (cur # NoData /\ cur.done) =>
        /\ Cardinality(TopForwards) = 1
        /\ \A i \in TopForwards :
              /\ i = Len(trace)
              /\ Msg(trace[i].hwnd, trace[i].msg, trace[i].w, trace[i].l) = cur.m
              /\ cur.ret = trace[i].res

\* a delivery that returns has called every due callback once, in order
ReturnedCalledAll == (cur # NoData /\ cur.done) => made(1) = Expected(cur.m)

\* a delivery that returns has forgotten every view it built
ReturnedForgotAll ==
    (cur # NoData /\ cur.done) => \A v \in 1..Len(views) : views[v] = "forgotten"

\* the process dies only in the selection extractor: of the capacity overflow
\* or of the write past the label buffer
DiesOnlyInSelection == proc \in {"running", "capacity", "heap"}

\* GetPlaceholder after SetPlaceholder
GotAfterSet == Len(log) = 2 /\ log[1].action = "SetPlaceholder"

\* a placeholder of two to 255 code units comes back as it was set, and no
\* placeholder as None
RoundTripFromTwo ==
    GotAfterSet =>
        IF ~log[1].p.some THEN log[2].ret = ReturnNone
        ELSE (Len(log[1].p.s) >= 2 /\ Len(log[1].p.s) < PlaceholderBuffer) =>
                log[2].ret = ReturnText(log[1].p.s)

\* a SelectionChanged callback that is called gets the selected index and the
\* decoding of the label at that index
CalledWithSelectionText ==
    \A i \in Calls :
        trace[i].kind = "SelectionChanged" =>
            /\ valid_index(trace[i].args[1])
            /\ trace[i].args[2] = decoded(ComboItems[trace[i].args[1] + 1])

---------------------------------------------------------------------------
(* Properties *)

\* C1: every delivered message is forwarded to the default handler exactly
\* once, unchanged, after classification and dispatch, and the hook returns
\* the default handler's result.
C1_ForwardedOnce ==
    Ended =>
        /\ Cardinality(TopForwards) = 1
        /\ \A i \in TopForwards :
              /\ i = Len(trace)
              /\ Msg(trace[i].hwnd, trace[i].msg, trace[i].w, trace[i].l) = cur.m
              /\ cur.done /\ cur.ret = trace[i].res

\* C2: when the resolved target has an entry, the callbacks called for a
\* message are exactly those bound under its classified events, each once, in
\* classification order across events and registration order within one.
C2_AllCallbacksInOrder == Ended => made(1) = Expected(cur.m)

\* C3: a command whose originating control has no entry classifies to
\* [Unknown] and calls no callback, whatever the raw target has bound.
C3_UnregisteredOwner ==
    (cur # NoData /\ IsCommand(cur.m) /\ get_handle_data(cur.m.l) = NoData) =>
        /\ Calls = {}
        /\ stack # <<>> => stack[1].events = <<Unknown>>

C3_Witness ==
    /\ cur # NoData /\ cur.done
    /\ IsCommand(cur.m) /\ get_handle_data(cur.m.l) = NoData
    /\ bound_callbacks(get_handle_data(cur.m.hwnd)) > 0
    /\ Cardinality(TopForwards) = 1

\* C4 as stated: the target resolved for a command is the originating
\* control, whatever the type of that control and the sub-code.
C4_AlwaysOwner ==
    \A i \in 1..Len(stack) :
        (IsCommand(stack[i]) /\ get_handle_data(stack[i].l) # NoData) =>
            stack[i].handle = stack[i].l

\* C4 as amended: the target resolved for a command is the originating
\* control when the command classifies to an event other than Unknown, and the
\* raw message's target when it classifies to Unknown.
C4_OwnerUnlessUnknown ==
    \A i \in 1..Len(stack) :
        IsCommand(stack[i]) =>
            stack[i].handle = IF stack[i].events = <<Unknown>> THEN stack[i].hwnd
                              ELSE stack[i].l

C4_Witness ==
    /\ stack # <<>> /\ IsCommand(stack[1])
    /\ stack[1].hwnd # stack[1].l
    /\ stack[1].events # <<Unknown>> /\ stack[1].handle = stack[1].l

\* C5: for an originating control with an entry, a command classifies as the
\* documented table of the control's type says.
C5_TypeScopedTable ==
    \A i \in 1..Len(stack) :
        (IsCommand(stack[i]) /\ get_handle_data(stack[i].l) # NoData) =>
            stack[i].events =
                CommandTable(get_handle_data(stack[i].l).type, HIWORD(stack[i].w))

C5_Witness ==
    /\ stack # <<>> /\ IsCommand(stack[1])
    /\ get_handle_data(stack[1].l) # NoData
    /\ get_handle_data(stack[1].l).type \in ButtonFamily
    /\ HIWORD(stack[1].w) = EN_CHANGE
    /\ stack[1].events = <<Unknown>>

\* C6: no step of a dispatch changes the control tree or its entries.
C6_TreeUnchanged ==
    [][stack # <<>> => (tree' = tree /\ registry' = registry)]_vars

\* C7: no delivery reaches the panic of handle_sizing or the unreachable
\* branches of the focus and selection extraction, and every delivered
\* message is forwarded to the default handler.
C7_NeverFatalAlwaysForwarded ==
    /\ proc \notin {"handle_sizing", "focus", "selection"}
    /\ Ended => TopForwards # {}

\* C8 as stated: at most one dispatch is in flight.
C8_OneInFlight == Len(stack) <= 1

\* C8 as amended: a second dispatch is in flight only for a query that the
\* selection extractor of the first sent to the resolved combo box; it
\* classifies to Unknown and calls nothing, and the first waits for it.
C8_NestedQueryOnly ==
    /\ Len(stack) <= 2
    /\ \A i \in Calls : trace[i].depth = 1
    /\ Len(stack) = 2 =>
          /\ stack[1].pc \in {"cursel", "textlen", "text"}
          /\ stack[1].events[stack[1].ei] = "SelectionChanged"
          /\ stack[2].msg \in {CB_GETCURSEL, CB_GETLBTEXTLEN, CB_GETLBTEXT}
          /\ stack[2].hwnd = stack[1].handle
          /\ stack[2].events = <<Unknown>>
          /\ stack[2].pc \in {"dispatch", "forward"}

C8_Witness ==
    /\ Len(stack) = 2
    /\ stack[2].msg = CB_GETLBTEXT /\ stack[2].pc = "dispatch"
    /\ stack[1].hwnd # stack[1].handle

\* C9: no view runs ordinary destruction, and a view that was built and not
\* forgotten belongs to a dispatch that has not ended.
C9_ViewForgotten ==
    \A v \in 1..Len(views) :
        /\ views[v] # "dropped"
        /\ views[v] = "live" =>
              \E i \in 1..Len(stack) : stack[i].vid = v /\ stack[i].pc # "forward"

\* C10 as stated: the flag of a Focus callback called for an activation
\* message is the low bit of the first parameter.
C10_LowBit ==
    \A i \in Calls :
        (trace[i].kind = "Focus" /\ cur.m.msg = WM_ACTIVATEAPP) =>
            trace[i].args = <<cur.m.w % 2 = 1>>

\* C10 as amended: the flag of a Focus callback called for an activation
\* message is true exactly when the first parameter equals 1.
C10_EqualsOne ==
    \A i \in Calls :
        (trace[i].kind = "Focus" /\ cur.m.msg = WM_ACTIVATEAPP) =>
            trace[i].args = <<cur.m.w = 1>>

C10_Witness ==
    \E i \in Calls :
        /\ trace[i].kind = "Focus" /\ cur.m.msg = WM_ACTIVATEAPP
        /\ cur.m.w = 3 /\ trace[i].args = <<FALSE>>

\* C11: for every button-up and button-down kind and every first parameter,
\* zero included, the button mask holds the button of the kind; the button
\* mask holds only left, middle and right bits, and the modifier mask exactly
\* the ctrl and shift bits of the parameter.
C11_ButtonOfKind ==
    (call # NoData /\ call.fn = "handle_btn") =>
        LET btn == call.out[3]
            modifiers == call.out[4]
            kind == CASE call.msg \in {WM_LBUTTONUP, WM_LBUTTONDOWN} -> BTN_MOUSE_LEFT
                      [] call.msg \in {WM_RBUTTONUP, WM_RBUTTONDOWN} -> BTN_MOUSE_RIGHT
                      [] OTHER -> BTN_MOUSE_MIDDLE
            buttons == {BTN_MOUSE_LEFT, BTN_MOUSE_RIGHT, BTN_MOUSE_MIDDLE}
            mods == {MOD_MOUSE_CTRL, MOD_MOUSE_SHIFT}
        IN /\ HasBit(btn, kind)
           /\ btn >= 0 /\ btn < 64 /\ modifiers >= 0 /\ modifiers < 64
           /\ \A b \in {1, 2, 4, 8, 16, 32} :
                 /\ HasBit(btn, b) => b \in buttons /\ (b = kind \/ HasBit(call.w, b))
                 /\ (b \in buttons /\ HasBit(call.w, b)) => HasBit(btn, b)
                 /\ HasBit(modifiers, b) <=> (b \in mods /\ HasBit(call.w, b))

C11_Witness ==
    /\ call # NoData /\ call.fn = "handle_btn"
    /\ call.msg = WM_MBUTTONUP /\ call.w = 0
    /\ call.out[3] = BTN_MOUSE_MIDDLE /\ call.out[4] = 0

\* C12: the resize payload is (left, top, right - left, bottom - top) of the
\* rectangle the message carries (in progress) or the host reports for the
\* handle (completed); both kinds give the same payload for the same
\* rectangle, and a completed resize at (10, 10, 110, 60) gives
\* (10, 10, 100, 50).
C12_ResizePayload ==
    (call # NoData /\ call.fn = "handle_sizing") =>
        LET r == IF call.msg = WM_SIZING THEN RectAt(call.l) ELSE call.windowRect
        IN /\ call.out = <<r.left, r.top, r.right - r.left, r.bottom - r.top>>
           /\ \A p \in RectPtrs :
                 RectAt(p) = r =>
                    /\ handle_sizing(WM_SIZING, p, call.windowRect) = call.out
                    /\ handle_sizing(WM_SIZE, call.l, RectAt(p)) = call.out
           /\ (call.msg = WM_SIZE
               /\ r = [left |-> 10, top |-> 10, right |-> 110, bottom |-> 60]) =>
                 call.out = <<10, 10, 100, 50>>

C12_Witness ==
    /\ call # NoData /\ call.fn = "handle_sizing"
    /\ call.msg = WM_SIZE
    /\ call.windowRect = [left |-> 10, top |-> 10, right |-> 110, bottom |-> 60]
    /\ call.out = <<10, 10, 100, 50>>

\* C13: the text of the selection payload is the decoding of the selected
\* label: the empty string for an empty label, the placeholder "ERROR!" for a
\* label that does not decode; the callback is called with it and the dispatch
\* completes, whatever the label.
C13_SelectionText ==
    /\ CalledWithSelectionText
    /\ \A i \in 1..Len(stack) :
          (stack[i].pc = "text" /\ valid_index(stack[i].selected)) => Running

\* C14: a callback is called only in a dispatch whose resolved target has an
\* entry that holds the callback under one of the classified events; a message
\* whose resolved target has no entry calls nothing and is forwarded.
C14_OnlyRegisteredTargets ==
    cur # NoData =>
        LET r == map_system_event(cur.m.hwnd, cur.m.msg, cur.m.w, cur.m.l)
            data == get_handle_data(r[2])
        IN /\ \A i \in Calls :
                 /\ data # NoData
                 /\ trace[i].handle = r[2]
                 /\ \E e \in 1..Len(r[1]) : r[1][e] = trace[i].event
                 /\ \E j \in 1..Len(data.callbacks[trace[i].event]) :
                       data.callbacks[trace[i].event][j] =
                           [key |-> trace[i].key, kind |-> trace[i].kind]
           /\ data = NoData =>
                 /\ Calls = {}
                 /\ Ended => cur.done /\ Cardinality(TopForwards) = 1

C14_Witness ==
    /\ cur # NoData /\ cur.done
    /\ cur.m.msg = WM_LBUTTONUP /\ cur.m.hwnd = 2
    /\ get_handle_data(2) = NoData
    /\ get_handle_data(1) # NoData /\ Len(get_handle_data(1).callbacks["MouseUp"]) = 1
    /\ Calls = {} /\ Cardinality(TopForwards) = 1

\* C15: a message kind other than the generic command classifies to one
\* event, with the target unchanged: MouseUp, MouseDown, Focus, Resize, Removed
\* by kind, Unknown for any other kind.  No event list is empty; one has two
\* elements only for the selection-changed command of a ComboBox; Unknown is
\* always alone in its list.
C15_DirectClassification ==
    \A i \in 1..Len(stack) :
        LET f == stack[i]
        IN /\ ~IsCommand(f) => (f.events = <<KindTable(f.msg)>> /\ f.handle = f.hwnd)
           /\ Len(f.events) \in {1, 2}
           /\ Len(f.events) = 2 =>
                 /\ IsCommand(f) /\ HIWORD(f.w) = CBN_SELCHANGE
                 /\ get_handle_data(f.l) # NoData
                 /\ get_handle_data(f.l).type = "ComboBox"
           /\ (\E e \in 1..Len(f.events) : f.events[e] = Unknown) =>
                 f.events = <<Unknown>>

C15_Witness ==
    /\ Len(stack) = 1
    /\ stack[1].msg = WM_SIZE /\ stack[1].events = <<"Resize">>
    /\ stack[1].handle = stack[1].hwnd
    /\ get_handle_data(stack[1].handle) # NoData

\* the set-focus code of a control type family
SetFocusOf(type) ==
    CASE type \in ButtonFamily -> BN_SETFOCUS
      [] type = "TextInput" -> EN_SETFOCUS
      [] type = "ComboBox" -> CBN_SETFOCUS

\* the kill-focus code of a control type family
KillFocusOf(type) ==
    CASE type \in ButtonFamily -> BN_KILLFOCUS
      [] type = "TextInput" -> EN_KILLFOCUS
      [] type = "ComboBox" -> CBN_KILLFOCUS

\* C16: a Focus callback called for a command gets true when the sub-code is
\* the set-focus code of the originating control's type family and false when
\* it is the family's kill-focus code, for the Button family, TextInput and
\* ComboBox.
C16_CommandFocus ==
    \A i \in Calls :
        (trace[i].kind = "Focus" /\ IsCommand(cur.m)) =>
            /\ get_handle_data(cur.m.l) # NoData
            /\ get_handle_data(cur.m.l).type \in ButtonFamily \cup {"TextInput", "ComboBox"}
            /\ LET type == get_handle_data(cur.m.l).type
                   command == HIWORD(cur.m.w)
               IN /\ command \in {SetFocusOf(type), KillFocusOf(type)}
                  /\ trace[i].args = <<command = SetFocusOf(type)>>

C16_Witness ==
    \E i \in Calls :
        /\ trace[i].kind = "Focus" /\ IsCommand(cur.m)
        /\ get_handle_data(cur.m.l).type = "ComboBox"
        /\ HIWORD(cur.m.w) = CBN_KILLFOCUS
        /\ trace[i].args = <<FALSE>>

\* C17: the host never writes past the label buffer: the buffer handed to
\* the text query has room for the label and its terminator; and the
\* extraction completes whatever the index and length queries answer, the
\* error sentinel for no selection included.
C17_LabelFitsBuffer ==
    /\ proc \notin {"capacity", "heap"}
    /\ \A i \in 2..Len(stack) : ~overflows(stack[i - 1], stack[i])

\* C18: the events other than Unknown that classification produces for a
\* TextInput are exactly those its template declares in supported_events, and
\* no dispatch to a TextInput carries any other.
C18_TextInputEvents ==
    /\ \A h \in Handles :
          (registry[h] # NoData /\ registry[h].type = "TextInput") =>
              classified(h) = supported_events
    /\ \A i \in 1..Len(stack) :
          (get_handle_data(stack[i].handle) # NoData
           /\ get_handle_data(stack[i].handle).type = "TextInput") =>
              \A e \in 1..Len(stack[i].events) :
                  stack[i].events[e] \in supported_events \cup {Unknown}

C18_Witness ==
    /\ Len(stack) = 1 /\ IsCommand(stack[1])
    /\ stack[1].hwnd = 1 /\ stack[1].handle = 2
    /\ get_handle_data(2).type = "TextInput"
    /\ stack[1].events = <<"MaxValue">>
    /\ classified(2) = supported_events

\* C19: GetPlaceholder after SetPlaceholder(Some(s)) returns Text(s) for
\* every non-empty s of at most 255 code units, and None after
\* SetPlaceholder(None).
C19_PlaceholderRoundTrip ==
    GotAfterSet =>
        IF ~log[1].p.some THEN log[2].ret = ReturnNone
        ELSE (Len(log[1].p.s) >= 1 /\ Len(log[1].p.s) < PlaceholderBuffer) =>
                log[2].ret = ReturnText(log[1].p.s)

=============================================================================
